---- MODULE Spec2Model ----
(***************************************************************************)
(* A model of the Nix bytecode interpreter of src/nix.c: the ProgramState  *)
(* (operand stack, heap slot table, variable stackframe, instruction       *)
(* pointer) and the dispatch loop execute_program, one action per opcode   *)
(* handler.  One step of the model is one iteration of the dispatch loop:  *)
(* the fetch (which increments inst_ptr), the handler with every call it   *)
(* makes, and the increment of inst_ptr that ends the loop body.           *)
(***************************************************************************)
EXTENDS Integers, Sequences, FiniteSets, TLC

(* ------------------------------------------------------------------ *)
(* Program constants                                                    *)
(* ------------------------------------------------------------------ *)
STACK_CAP == 256

STACKFRAME_CAP == 512

PROGRAM_CAP == 2048

MAX_STRING_LEN == 1024

(* ------------------------------------------------------------------ *)
(* Bounds of the model                                                  *)
(* ------------------------------------------------------------------ *)
\* Width, in bits, the model gives size_t (64 in the build): payloads wrap
\* modulo 2^SizeBits.
SizeBits == 14

\* Width, in bits, the model gives int and uint32_t (32 in the build).
IntBits == 10

\* Longest program of the exhaustively enumerated family.
MaxProgLen == 4

\* Most characters of output a run of the model produces before it is cut.
MaxOutput == 12

SizeMod == 2 ^ SizeBits

IntMod == 2 ^ IntBits

(* ------------------------------------------------------------------ *)
(* Integer conversions                                                  *)
(* ------------------------------------------------------------------ *)
\* A value stored into a size_t.
ToSize(n) == n % SizeMod

\* (int)x of a size_t x: the low bits, read as a signed number.
ToInt(d) ==
    LET r == d % IntMod
    IN  IF r >= IntMod \div 2 THEN r - IntMod ELSE r

\* (uint32_t)x of a size_t x.
ToU32(d) == d % IntMod

(* ------------------------------------------------------------------ *)
(* Enumerations and values                                              *)
(* ------------------------------------------------------------------ *)
ScalarTypes == {"VAR_TYPE_INT", "VAR_TYPE_FLOAT", "VAR_TYPE_DOUBLE", "VAR_TYPE_CHAR"}

VariableType == ScalarTypes \cup {"VAR_TYPE_STR", "VAR_TYPE_TABLE", "VAR_TYPE_STRUCT"}

NoError == "none"

\* A RuntimeValue.
RV(d, t, h) == [data |-> d, var_type |-> t, heap_ptr |-> h]

\* The RuntimeValue of zeroed memory (memset in main): data 0, the first
\* enumerator VAR_TYPE_INT, heap_ptr false.
ZeroValue == RV(0, "VAR_TYPE_INT", FALSE)

\* A Token.
Tok(i, v) == [inst |-> i, val |-> v]

\* The Token of zeroed memory: the first enumerator INST_STACK_PUSH.
ZeroToken == Tok("INST_STACK_PUSH", ZeroValue)

(* ------------------------------------------------------------------ *)
(* State                                                                *)
(* ------------------------------------------------------------------ *)
VARIABLES
    program,        \* state->program[0 .. program_size-1], a sequence of Tokens
    inst_ptr,       \* state->inst_ptr
    stack,          \* state->stack[0 .. stack_size-1], the live cells
    stack_size,     \* state->stack_size
    heap,           \* state->heap[0 .. heap_size-1], the slots handed out so far
    heap_size,      \* state->heap_size
    heap_table,     \* whether state->heap points to a table of slots, or is null
    stackframe,     \* state->stackframe[0 .. stackframe_index-1], the bindings
    stackframe_index,
    found_solution_for_if_block,
    output,         \* what the print instructions have written, character by character
    err,            \* the error PANIC_ON_ERR reported before exit(1), or NoError
    stack_oob,      \* history: a stack cell outside 0 .. STACK_CAP-1 was read or written
    heap_oob,       \* history: memory outside a slot's live buffer was read or written
    executed,       \* history: the indices of the instructions dispatched so far
    last_inst       \* history: the index of the instruction dispatched last, -1 at start

vars == <<program, inst_ptr, stack, stack_size, heap, heap_size, heap_table,
          stackframe, stackframe_index, found_solution_for_if_block, output, err,
          stack_oob, heap_oob, executed, last_inst>>

program_size == Len(program)

\* state->program[i]: the array holds PROGRAM_CAP tokens, zeroed past the program.
ProgramAt(prog, i) ==
    IF i >= 0 /\ i < Len(prog) THEN prog[i + 1] ELSE ZeroToken

\* The ProgramState, as the record the handlers below transform.  ret, val1
\* and val2 are the handlers' locals.
State ==
    [ program |-> program,
      inst_ptr |-> inst_ptr, stack |-> stack, stack_size |-> stack_size,
      heap |-> heap, heap_size |-> heap_size, heap_table |-> heap_table,
      stackframe |-> stackframe, stackframe_index |-> stackframe_index,
      found |-> found_solution_for_if_block, output |-> output, err |-> err,
      stack_oob |-> stack_oob, heap_oob |-> heap_oob,
      ret |-> ZeroValue, val1 |-> ZeroValue, val2 |-> ZeroValue ]

(* ------------------------------------------------------------------ *)
(* PANIC_ON_ERR and the stack operations                                *)
(* ------------------------------------------------------------------ *)
\* PANIC_ON_ERR(cond, err_type, ...): report the error and exit(1).
PANIC_ON_ERR(s, cond, err_type) ==
    IF cond THEN [s EXCEPT !.err = err_type] ELSE s

Ok(s) == s.err = NoError

\* The cell state->stack[i].
StackCell(s, i) ==
    IF i >= 0 /\ i < Len(s.stack) THEN s.stack[i + 1] ELSE ZeroValue

\* An access to state->stack[i], recorded when it falls outside the array.
StackAccess(s, i) ==
    [s EXCEPT !.stack_oob = @ \/ i < 0 \/ i >= STACK_CAP]

\* state->stack[i] = v
StackStore(s, i, v) ==
    [StackAccess(s, i) EXCEPT
        !.stack = IF i = Len(@) THEN Append(@, v)
                  ELSE IF i >= 0 /\ i < Len(@) THEN [@ EXCEPT ![i + 1] = v]
                  ELSE @]

\* The draft's stack_pop: no check.
stack_pop_unchecked(s) ==
    LET n == s.stack_size - 1
    IN  [StackAccess(s, n) EXCEPT
            !.stack_size = n,
            !.stack = SubSeq(@, 1, n),
            !.ret = StackCell(s, n)]

\* stack_pop returning the cell below the one it releases:
\* state->stack[state->stack_size - 1] read after the decrement.
stack_pop_below(s) ==
    IF s.stack_size = 0 THEN PANIC_ON_ERR(s, TRUE, "ERR_STACK_UNDERFLOW")
    ELSE LET n == s.stack_size - 1
         IN  [StackAccess(s, n) EXCEPT
                 !.stack_size = n,
                 !.stack = SubSeq(@, 1, n),
                 !.ret = StackCell(s, n - 1)]

stack_pop(s) ==
    IF s.stack_size = 0 THEN PANIC_ON_ERR(s, TRUE, "ERR_STACK_UNDERFLOW")
    ELSE LET n == s.stack_size - 1
         IN  [StackAccess(s, n) EXCEPT
                 !.stack_size = n,
                 !.stack = SubSeq(@, 1, n),
                 !.ret = StackCell(s, n)]

\* stack_peak counting from the bottom of the stack: state->stack[index].
stack_peak_from_bottom(s, index) ==
    IF s.stack_size <= index THEN PANIC_ON_ERR(s, TRUE, "ERR_INVALID_STACK_ACCESS")
    ELSE [StackAccess(s, index) EXCEPT !.ret = StackCell(s, index)]

\* stack_peak(state, index): the comparison is unsigned.
stack_peak(s, index) ==
    IF s.stack_size <= index THEN PANIC_ON_ERR(s, TRUE, "ERR_INVALID_STACK_ACCESS")
    ELSE [StackAccess(s, s.stack_size - index - 1) EXCEPT
             !.ret = StackCell(s, s.stack_size - index - 1)]

stack_top(s) ==
    IF s.stack_size = 0 THEN PANIC_ON_ERR(s, TRUE, "ERR_STACK_UNDERFLOW")
    ELSE [StackAccess(s, s.stack_size - 1) EXCEPT
             !.ret = StackCell(s, s.stack_size - 1)]

\* The draft's stack_push: no check.
stack_push_unchecked(s, val) ==
    [StackStore(s, s.stack_size, val) EXCEPT !.stack_size = @ + 1]

stack_push(s, val) ==
    IF s.stack_size = STACK_CAP THEN PANIC_ON_ERR(s, TRUE, "ERR_STACK_OVERFLOW")
    ELSE [StackStore(s, s.stack_size, val) EXCEPT !.stack_size = @ + 1]

\* RuntimeValue val2 = stack_pop(state); RuntimeValue val1 = stack_pop(state);
PopOperands(s) ==
    LET s1 == stack_pop(s)
    IN  IF ~Ok(s1) THEN s1
        ELSE LET s2 == stack_pop(s1)
             IN  [s2 EXCEPT !.val2 = s1.ret, !.val1 = s2.ret]

(* ------------------------------------------------------------------ *)
(* Heap operations                                                      *)
(* ------------------------------------------------------------------ *)
\* What the process reports when it is killed by an invalid memory access.
Crash == "SIGSEGV"

\* What a read of memory outside every object can produce: the process is
\* killed, or some bits are read as a RuntimeValue.
WildReads ==
    {[crash |-> TRUE, val |-> ZeroValue]}
    \cup {[crash |-> FALSE, val |-> RV(d, t, h)] :
            d \in {0, 1}, t \in {"VAR_TYPE_INT", "VAR_TYPE_STR", "VAR_TYPE_TABLE"},
            h \in BOOLEAN}

\* state->heap[i].data after free(): the null pointer.
NullPtr == [null |-> TRUE, bytes |-> 0, cells |-> << >>]

\* The types heap_alloc has a case for.
HeapTypes == ScalarTypes \cup {"VAR_TYPE_STR"}

\* The content of memory malloc returns, never written since.
Uninit == [written |-> FALSE, value |-> 0]

\* The buffer malloc returns in heap_alloc: sizeof the scalar, that is one
\* element, whatever size is asked for; size bytes for a string.
HeapBuffer(var_type, size) ==
    IF var_type = "VAR_TYPE_STR" THEN [null |-> FALSE, bytes |-> size, cells |-> << >>]
    ELSE [null |-> FALSE,
          bytes |-> CASE var_type = "VAR_TYPE_CHAR"   -> 1
                      [] var_type = "VAR_TYPE_DOUBLE" -> 8
                      [] OTHER                        -> 4,
          cells |-> << Uninit >>]

\* heap_alloc without its last statement, state->heap_size++.
heap_alloc_same_index(s, var_type, size) ==
    IF s.heap_size = STACK_CAP THEN PANIC_ON_ERR(s, TRUE, "ERR_STACK_OVERFLOW")
    ELSE IF ~s.heap_table THEN [s EXCEPT !.err = Crash]
    ELSE IF var_type \notin HeapTypes THEN PANIC_ON_ERR(s, TRUE, "ERR_INVALID_DATA_TYPE")
    ELSE LET slot == [var_type |-> var_type, data |-> HeapBuffer(var_type, size)]
             s1 == [s EXCEPT !.heap = Append(SubSeq(@, 1, s.heap_size), slot)]
         IN  stack_push(s1, RV(s.heap_size, "VAR_TYPE_INT", TRUE))

\* state->heap is the null pointer unless the embedding has allocated the
\* table: the store to state->heap[heap_size].var_type then kills the process.
heap_alloc(s, var_type, size) ==
    IF s.heap_size = STACK_CAP THEN PANIC_ON_ERR(s, TRUE, "ERR_STACK_OVERFLOW")
    ELSE IF ~s.heap_table THEN [s EXCEPT !.err = Crash]
    ELSE IF var_type \notin HeapTypes THEN PANIC_ON_ERR(s, TRUE, "ERR_INVALID_DATA_TYPE")
    ELSE LET slot == [var_type |-> var_type, data |-> HeapBuffer(var_type, size)]
             s1 == [s EXCEPT !.heap = Append(SubSeq(@, 1, s.heap_size), slot)]
             s2 == stack_push(s1, RV(s.heap_size, "VAR_TYPE_INT", TRUE))
         IN  IF ~Ok(s2) THEN [s2 EXCEPT !.heap = s.heap]
             ELSE [s2 EXCEPT !.heap_size = @ + 1]

heap_free(s, ptr_val) ==
    IF ~ptr_val.heap_ptr THEN PANIC_ON_ERR(s, TRUE, "ERR_INVALID_PTR")
    ELSE LET ptr_index == ToU32(ptr_val.data)
         IN  IF ptr_index >= s.heap_size THEN PANIC_ON_ERR(s, TRUE, "ERR_INVALID_PTR")
             ELSE [s EXCEPT !.heap[ptr_index + 1].data = NullPtr]

\* (char)x of a size_t x: the low 8 bits, read as a signed number.
ToChar(d) ==
    LET r == d % 256
    IN  IF r >= 128 THEN r - 256 ELSE r

\* The element ptr_set_i stores for the payload d: (int)d, (char)d, and
\* (float)d or (double)d, which are exact for every payload of SizeBits bits.
Element(var_type, d) ==
    CASE var_type = "VAR_TYPE_INT"  -> ToInt(d)
      [] var_type = "VAR_TYPE_CHAR" -> ToChar(d)
      [] OTHER                      -> d

\* Whether data[index] lies in the buffer the slot holds.
InBuffer(slot, index) ==
    ~slot.data.null /\ index < Len(slot.data.cells)

\* ptr_get_i(state, ptr_val, index).  Neither the index nor a freed slot is
\* checked: u is what an access outside the buffer, or a read of memory
\* never written, produces.  For a string the address of the element is
\* computed and pushed, and nothing is read.
ptr_get_i(s, ptr_val, index, u) ==
    IF ~ptr_val.heap_ptr THEN PANIC_ON_ERR(s, TRUE, "ERR_INVALID_PTR")
    ELSE LET ptr_index == ToU32(ptr_val.data)
         IN  IF ptr_index >= s.heap_size THEN PANIC_ON_ERR(s, TRUE, "ERR_INVALID_PTR")
             ELSE LET slot == s.heap[ptr_index + 1]
                      var_type == slot.var_type
                  IN  IF var_type = "VAR_TYPE_STR"
                      THEN stack_push(s, RV(u.val.data, "VAR_TYPE_STR", FALSE))
                      ELSE IF var_type \notin ScalarTypes
                      THEN PANIC_ON_ERR(s, TRUE, "ERR_INVALID_DATA_TYPE")
                      ELSE IF InBuffer(slot, index)
                      THEN LET cell == slot.data.cells[index + 1]
                               read == IF cell.written THEN cell.value ELSE u.val.data
                           IN  stack_push(s, RV(ToSize(read), var_type, FALSE))
                      ELSE IF u.crash THEN [s EXCEPT !.err = Crash, !.heap_oob = TRUE]
                      ELSE stack_push([s EXCEPT !.heap_oob = TRUE],
                                      RV(u.val.data, var_type, FALSE))

\* ptr_set_i(state, ptr_val, index, new_val).  The tag of new_val is not
\* looked at.  For a string, strcpy reads from the address new_val.data; the
\* string copied is taken to fit when it starts inside the buffer.
ptr_set_i(s, ptr_val, index, new_val, u) ==
    IF ~ptr_val.heap_ptr THEN PANIC_ON_ERR(s, TRUE, "ERR_INVALID_PTR")
    ELSE LET ptr_index == ToU32(ptr_val.data)
         IN  IF ptr_index >= s.heap_size THEN PANIC_ON_ERR(s, TRUE, "ERR_INVALID_PTR")
             ELSE LET slot == s.heap[ptr_index + 1]
                      var_type == slot.var_type
                  IN  IF var_type = "VAR_TYPE_STR"
                      THEN IF u.crash THEN [s EXCEPT !.err = Crash]
                           ELSE [s EXCEPT !.heap_oob =
                                    @ \/ slot.data.null
                                      \/ index * MAX_STRING_LEN >= slot.data.bytes]
                      ELSE IF var_type \notin ScalarTypes
                      THEN PANIC_ON_ERR(s, TRUE, "ERR_INVALID_DATA_TYPE")
                      ELSE IF InBuffer(slot, index)
                      THEN [s EXCEPT !.heap[ptr_index + 1].data.cells[index + 1] =
                                        [written |-> TRUE,
                                         value |-> Element(var_type, new_val.data)]]
                      ELSE IF u.crash THEN [s EXCEPT !.err = Crash, !.heap_oob = TRUE]
                      ELSE [s EXCEPT !.heap_oob = TRUE]

(* ------------------------------------------------------------------ *)
(* The handlers of execute_program's switch.  Each takes the state     *)
(* after the fetch; g is the value an uninitialised bool is read as.    *)
(* ------------------------------------------------------------------ *)
Bool(b) == IF b THEN 1 ELSE 0

INST_STACK_PUSH(s, tok) == stack_push(s, tok.val)

INST_STACK_PREV(s) ==
    LET s1 == stack_peak(s, 0)
    IN  IF ~Ok(s1) THEN s1 ELSE stack_push(s1, s1.ret)

INST_STACK_POP(s) == stack_pop(s)

\* RuntimeValue result; ... stack_push(state, result): heap_ptr is never set.
PushResult(p, data, var_type, g) ==
    stack_push(p, RV(ToSize(data), var_type, g))

INST_PLUS(s, g) ==
    LET p == PopOperands(s)
    IN  IF ~Ok(p) THEN p
        ELSE IF p.val1.var_type \in ScalarTypes
             THEN PushResult(p, p.val1.data + p.val2.data, p.val1.var_type, g)
             ELSE PANIC_ON_ERR(p, TRUE, "ERR_INVALID_DATA_TYPE")

\* INST_MINUS with its operands exchanged: val2.data - val1.data.
INST_MINUS_swapped(s, g) ==
    LET p == PopOperands(s)
    IN  IF ~Ok(p) THEN p
        ELSE IF p.val1.var_type \in ScalarTypes
             THEN PushResult(p, p.val2.data - p.val1.data, p.val1.var_type, g)
             ELSE PANIC_ON_ERR(p, TRUE, "ERR_INVALID_DATA_TYPE")

INST_MINUS(s, g) ==
    LET p == PopOperands(s)
    IN  IF ~Ok(p) THEN p
        ELSE IF p.val1.var_type \in ScalarTypes
             THEN PushResult(p, p.val1.data - p.val2.data, p.val1.var_type, g)
             ELSE PANIC_ON_ERR(p, TRUE, "ERR_INVALID_DATA_TYPE")

INST_MUL(s, g) ==
    LET p == PopOperands(s)
    IN  IF ~Ok(p) THEN p
        ELSE IF p.val1.var_type \in ScalarTypes
             THEN PushResult(p, p.val1.data * p.val2.data, p.val1.var_type, g)
             ELSE PANIC_ON_ERR(p, TRUE, "ERR_INVALID_DATA_TYPE")

INST_DIV(s, g) ==
    LET p == PopOperands(s)
    IN  IF ~Ok(p) THEN p
        ELSE IF p.val1.var_type \in ScalarTypes
             THEN IF p.val2.data = 0 THEN PANIC_ON_ERR(p, TRUE, "ERR_INVALID_DATA_TYPE")
                  ELSE PushResult(p, p.val1.data \div p.val2.data, p.val1.var_type, g)
             ELSE PANIC_ON_ERR(p, TRUE, "ERR_INVALID_DATA_TYPE")

INST_MOD(s, g) ==
    LET p == PopOperands(s)
    IN  IF ~Ok(p) THEN p
        ELSE IF p.val2.data = 0 THEN PANIC_ON_ERR(p, TRUE, "ERR_INVALID_DATA_TYPE")
        ELSE IF p.val1.var_type \in {"VAR_TYPE_INT", "VAR_TYPE_CHAR"}
             THEN PushResult(p, p.val1.data % p.val2.data, p.val1.var_type, g)
             ELSE PANIC_ON_ERR(p, TRUE, "ERR_INVALID_DATA_TYPE")

INST_EQ(s, g) ==
    LET p == PopOperands(s)
    IN  IF ~Ok(p) THEN p
        ELSE PushResult(p, Bool(p.val1.data = p.val2.data), "VAR_TYPE_INT", g)

INST_NEQ(s, g) ==
    LET p == PopOperands(s)
    IN  IF ~Ok(p) THEN p
        ELSE PushResult(p, Bool(p.val1.data # p.val2.data), "VAR_TYPE_INT", g)

\* The switch of INST_GT, INST_LT, INST_GEQ, INST_LEQ: holds is the C
\* comparison of the two size_t payloads.
Compare(p, holds, g) ==
    IF p.val1.var_type \in ScalarTypes
    THEN PushResult(p, Bool(holds), "VAR_TYPE_INT", g)
    ELSE PANIC_ON_ERR(p, TRUE, "ERR_INVALID_DATA_TYPE")

INST_GT(s, g) ==
    LET p == PopOperands(s)
    IN  IF ~Ok(p) THEN p ELSE Compare(p, p.val1.data > p.val2.data, g)

INST_LT(s, g) ==
    LET p == PopOperands(s)
    IN  IF ~Ok(p) THEN p ELSE Compare(p, p.val1.data < p.val2.data, g)

INST_GEQ(s, g) ==
    LET p == PopOperands(s)
    IN  IF ~Ok(p) THEN p ELSE Compare(p, p.val1.data >= p.val2.data, g)

INST_LEQ(s, g) ==
    LET p == PopOperands(s)
    IN  IF ~Ok(p) THEN p ELSE Compare(p, p.val1.data <= p.val2.data, g)

INST_LOGICAL_AND(s, g) ==
    LET p == PopOperands(s)
    IN  IF ~Ok(p) THEN p
        ELSE PushResult(p, Bool(p.val1.data # 0 /\ p.val2.data # 0), "VAR_TYPE_INT", g)

INST_LOGICAL_OR(s, g) ==
    LET p == PopOperands(s)
    IN  IF ~Ok(p) THEN p
        ELSE PushResult(p, Bool(p.val1.data # 0 \/ p.val2.data # 0), "VAR_TYPE_INT", g)

(* ------------------------------------------------------------------ *)
(* Control flow                                                         *)
(* ------------------------------------------------------------------ *)
\* What a scan returns when its for loop ends without a break.
NotFound == -1

\* The for loop of INST_IF, INST_ELSE and INST_ELIF, from index i with the
\* counter at count: the new inst_ptr (i + 1 at the break), or NotFound.
\* count is a uint32_t compared with -1: 0 - 1 wraps to the value -1
\* converts to, so the counter is followed here as an integer.
RECURSIVE IfScan(_, _, _)
IfScan(prog, i, count) ==
    IF i >= Len(prog) THEN NotFound
    ELSE LET inst == ProgramAt(prog, i).inst
             c1 == IF inst \in {"INST_ELSE", "INST_ELIF", "INST_ENDIF"}
                   THEN count - 1 ELSE count
             c2 == IF inst \in {"INST_IF", "INST_ELIF"} THEN c1 + 1 ELSE c1
         IN  IF c2 = -1 THEN i + 1 ELSE IfScan(prog, i + 1, c2)

\* The for loop of INST_WHILE and INST_END_WHILE, downwards from index i.
RECURSIVE WhileScan(_, _, _)
WhileScan(prog, i, count) ==
    IF i < 0 THEN NotFound
    ELSE LET inst == ProgramAt(prog, i).inst
             c1 == IF inst \in {"INST_END_WHILE", "INST_WHILE", "INST_RUN_WHILE"}
                   THEN count - 1 ELSE count
             c2 == IF inst = "INST_WHILE" THEN c1 + 1 ELSE c1
         IN  IF c2 = -1 THEN i + 1 ELSE WhileScan(prog, i - 1, c2)

\* state->inst_ptr = i + 1 at the break of a scan; unchanged without one.
SetInstPtr(s, found) ==
    IF found = NotFound THEN s ELSE [s EXCEPT !.inst_ptr = found]

INST_IF(s) ==
    LET s1 == stack_pop(s)
    IN  IF ~Ok(s1) THEN s1
        ELSE IF s1.ret.data # 0 THEN [s1 EXCEPT !.found = TRUE]
        ELSE SetInstPtr([s1 EXCEPT !.found = FALSE],
                        IfScan(s1.program, s1.inst_ptr, 0))

INST_ELSE(s) ==
    IF ~s.found THEN SetInstPtr(s, IfScan(s.program, s.inst_ptr, 0)) ELSE s

INST_ELIF(s) ==
    IF ~s.found THEN SetInstPtr(s, IfScan(s.program, s.inst_ptr, 0)) ELSE s

INST_ENDIF(s) == s

INST_WHILE(s) ==
    LET s1 == stack_pop(s)
    IN  IF ~Ok(s1) THEN s1
        ELSE IF s1.ret.data = 0
             THEN SetInstPtr(s1, WhileScan(s1.program, s1.inst_ptr, 0))
             ELSE s1

INST_RUN_WHILE(s) == s

INST_END_WHILE(s) == SetInstPtr(s, WhileScan(s.program, s.inst_ptr, 0))

\* The operand is read from state->program[state->inst_ptr] after the fetch
\* has incremented inst_ptr.
INST_JUMP(s) ==
    LET jump_index == ToU32(ProgramAt(s.program, s.inst_ptr).val.data)
    IN  IF jump_index >= Len(s.program) THEN PANIC_ON_ERR(s, TRUE, "ERR_INVALID_JUMP")
        ELSE [s EXCEPT !.inst_ptr = jump_index]

(* ------------------------------------------------------------------ *)
(* Printing                                                             *)
(* ------------------------------------------------------------------ *)
DigitChars == <<"0", "1", "2", "3", "4", "5", "6", "7", "8", "9">>

\* The decimal digits of n >= 0.
RECURSIVE Digits(_)
Digits(n) ==
    IF n < 10 THEN <<DigitChars[n + 1]>>
    ELSE Digits(n \div 10) \o <<DigitChars[(n % 10) + 1]>>

\* What printf writes for %d.
DecimalText(n) == IF n < 0 THEN <<"-">> \o Digits(-n) ELSE Digits(n)

\* The char arrays the tokens of the model's programs point to, by address:
\* "hi", "" and "7".
StringLiterals ==
    (4096 :> << "h", "i" >>) @@ (4112 :> << >>) @@ (4128 :> << "7" >>)

\* What printf writes for a popped value: %d of (int)data for an integer;
\* for the other tags the conversion and the bits it is given.
Rendered(val) ==
    CASE val.var_type = "VAR_TYPE_INT"    -> DecimalText(ToInt(val.data))
      [] val.var_type = "VAR_TYPE_FLOAT"  -> <<"%f">> \o Digits(ToU32(val.data))
      [] val.var_type = "VAR_TYPE_DOUBLE" -> <<"%lf">> \o Digits(val.data)
      [] val.var_type = "VAR_TYPE_CHAR"   -> <<"%c">> \o Digits(val.data % 256)
      [] val.var_type = "VAR_TYPE_STR"    ->
            IF val.data \in DOMAIN StringLiterals THEN StringLiterals[val.data]
            ELSE <<"%s">> \o Digits(val.data)
      [] OTHER                            -> <<>>

PrintTypes == ScalarTypes \cup {"VAR_TYPE_STR"}

INST_PRINT(s) ==
    LET s1 == stack_pop(s)
    IN  IF ~Ok(s1) THEN s1
        ELSE IF s1.ret.var_type \in PrintTypes
             THEN [s1 EXCEPT !.output = @ \o Rendered(s1.ret)]
             ELSE PANIC_ON_ERR(s1, TRUE, "ERR_INVALID_DATA_TYPE")

INST_PRINTLN(s) ==
    LET s1 == stack_pop(s)
    IN  IF ~Ok(s1) THEN s1
        ELSE IF s1.ret.var_type \in PrintTypes
             THEN [s1 EXCEPT !.output = @ \o Rendered(s1.ret) \o <<"\n">>]
             ELSE PANIC_ON_ERR(s1, TRUE, "ERR_INVALID_DATA_TYPE")

(* ------------------------------------------------------------------ *)
(* Literal loads                                                        *)
(* ------------------------------------------------------------------ *)
\* int int_val = state->program[state->inst_ptr].val.data; pushed as
\* (size_t)int_val with heap_ptr zero-initialised.
INST_INT_TYPE(s) ==
    LET int_val == ToInt(ProgramAt(s.program, s.inst_ptr).val.data)
    IN  stack_push(s, RV(ToSize(int_val), "VAR_TYPE_INT", FALSE))

\* The buffer of a string slot after memcpy(data, str_val, size): size chars
\* and no terminator, for malloc was given size and not size + 1.
Copied(text) ==
    [null |-> FALSE, bytes |-> Len(text),
     cells |-> [i \in 1..Len(text) |-> [written |-> TRUE, value |-> text[i]]]]

\* char *str_val = (char *)state->program[state->inst_ptr].val.data;
\* strlen, heap_alloc (which pushes the reference, tagged VAR_TYPE_INT) and
\* memcpy into the slot just added.  An operand that is no address of a
\* string makes strlen read memory outside every object: the null pointer
\* kills the process, any other is u, with u.val.data chars found there.
INST_STR_TYPE(s, u) ==
    LET str_val == ProgramAt(s.program, s.inst_ptr).val.data
        known == str_val \in DOMAIN StringLiterals
        text == IF known THEN StringLiterals[str_val]
                ELSE [i \in 1..u.val.data |-> "?"]
    IN  IF ~known /\ (str_val = 0 \/ u.crash) THEN [s EXCEPT !.err = Crash]
        ELSE LET s1 == heap_alloc(s, "VAR_TYPE_STR", Len(text))
             IN  IF ~Ok(s1) THEN s1
                 ELSE [s1 EXCEPT !.heap[s1.heap_size].data = Copied(text)]

(* ------------------------------------------------------------------ *)
(* Variables                                                            *)
(* ------------------------------------------------------------------ *)
\* state->stackframe[i]
FrameAt(s, i) == s.stackframe[i + 1]

\* Whether state->stackframe[i] is an element of the array that has been
\* written.
InFrame(s, i) == i >= 0 /\ i < Len(s.stackframe)

\* There is no capacity check in the handler: at STACKFRAME_CAP the two
\* stores fall on what follows the array in ProgramState, where
\* stackframe_size and stackframe_index lie.  u is what they do: the process
\* is killed; or stackframe_index is left alone (u.val.heap_ptr) or holds
\* the bits u.val.data when it is incremented.  The members further on
\* (inst_ptr, program_size) are taken as left alone.
INST_ADD_VAR_TO_STACKFRAME(s, u) ==
    LET s1 == stack_pop(s)
        frame_index == s.stackframe_index
        binding == [val |-> s1.ret, frame_index |-> frame_index]
    IN  IF ~Ok(s1) THEN s1
        ELSE IF frame_index >= STACKFRAME_CAP
             THEN IF u.crash THEN [s1 EXCEPT !.err = Crash]
                  ELSE [s1 EXCEPT !.stackframe_index =
                                    IF u.val.heap_ptr THEN @ + 1 ELSE u.val.data + 1]
             ELSE [s1 EXCEPT
                      !.stackframe = IF frame_index = Len(@) THEN Append(@, binding)
                                     ELSE [@ EXCEPT ![frame_index + 1] = binding],
                      !.stackframe_index = @ + 1]

\* The body of the switch of INST_ASSIGN (on the binding's tag) and of
\* INST_VAR_REASSIGN (on the popped value's tag): the binding var after the
\* store of val, left in ret.  The tag of the binding is never written.
StoreBinding(s, var, val, tag) ==
    CASE tag \in {"VAR_TYPE_INT", "VAR_TYPE_CHAR", "VAR_TYPE_DOUBLE"} ->
            [s EXCEPT !.ret = [var EXCEPT !.data = val.data]]
      [] tag = "VAR_TYPE_FLOAT" ->
            [s EXCEPT !.ret = [var EXCEPT
                !.data = (@ \div IntMod) * IntMod + (val.data % IntMod)]]
      [] tag = "VAR_TYPE_STR" ->
            LET s1 == IF var.heap_ptr THEN heap_free(s, var) ELSE s
            IN  IF ~Ok(s1) THEN s1
                ELSE [s1 EXCEPT !.ret = [var EXCEPT !.data = val.data, !.heap_ptr = FALSE]]
      [] OTHER -> PANIC_ON_ERR(s, TRUE, "ERR_INVALID_DATA_TYPE")

\* state->stackframe[i].val = s.ret
WriteBinding(s, i) ==
    IF ~Ok(s) THEN s ELSE [s EXCEPT !.stackframe[i + 1].val = s.ret]

\* With no binding declared, stackframe_index - 1 wraps and the binding
\* addressed lies outside every object: u is what is found there.
INST_ASSIGN(s, u) ==
    LET s1 == stack_pop(s)
    IN  IF ~Ok(s1) THEN s1
        ELSE IF ~InFrame(s1, s1.stackframe_index - 1)
             THEN IF u.crash THEN [s1 EXCEPT !.err = Crash]
                  ELSE StoreBinding(s1, u.val, s1.ret, u.val.var_type)
             ELSE LET i == s1.stackframe_index - 1
                      var == FrameAt(s1, i).val
                  IN  WriteBinding(StoreBinding(s1, var, s1.ret, var.var_type), i)

INST_VAR_USAGE(s, u) ==
    IF ~InFrame(s, s.stackframe_index - 1)
    THEN IF u.crash THEN [s EXCEPT !.err = Crash] ELSE stack_push(s, u.val)
    ELSE LET var_index == FrameAt(s, s.stackframe_index - 1).frame_index
         IN  stack_push(s, FrameAt(s, var_index).val)

INST_VAR_REASSIGN(s, u) ==
    IF ~InFrame(s, s.stackframe_index - 1)
    THEN IF u.crash THEN [s EXCEPT !.err = Crash]
         ELSE LET s1 == stack_pop(s)
              IN  IF ~Ok(s1) THEN s1
                  ELSE StoreBinding(s1, u.val, s1.ret, s1.ret.var_type)
    ELSE LET var_index == FrameAt(s, s.stackframe_index - 1).frame_index
             s1 == stack_pop(s)
         IN  IF ~Ok(s1) THEN s1
             ELSE WriteBinding(
                    StoreBinding(s1, FrameAt(s1, var_index).val, s1.ret, s1.ret.var_type),
                    var_index)

(* ------------------------------------------------------------------ *)
(* Heap instructions                                                    *)
(* ------------------------------------------------------------------ *)
\* The type is read from the token that follows the instruction.
INST_HEAP_ALLOC(s) ==
    LET s1 == stack_pop(s)
        var_type == ProgramAt(s.program, s.inst_ptr).val.var_type
    IN  IF ~Ok(s1) THEN s1 ELSE heap_alloc(s1, var_type, s1.ret.data)

INST_HEAP_FREE(s) ==
    LET s1 == stack_pop(s)
    IN  IF ~Ok(s1) THEN s1 ELSE heap_free(s1, s1.ret)

\* ptr_val, then index_val, are popped; the index parameter is a uint32_t.
INST_PTR_GET_I(s, u) ==
    LET s1 == stack_pop(s)
    IN  IF ~Ok(s1) THEN s1
        ELSE LET s2 == stack_pop(s1)
             IN  IF ~Ok(s2) THEN s2
                 ELSE ptr_get_i(s2, s1.ret, ToU32(s2.ret.data), u)

\* ptr_val, then index_val, then data_val, are popped.
INST_PTR_SET_I(s, u) ==
    LET s1 == stack_pop(s)
    IN  IF ~Ok(s1) THEN s1
        ELSE LET s2 == stack_pop(s1)
             IN  IF ~Ok(s2) THEN s2
                 ELSE LET s3 == stack_pop(s2)
                      IN  IF ~Ok(s3) THEN s3
                          ELSE ptr_set_i(s3, s1.ret, ToU32(s2.ret.data), s3.ret, u)

(* ------------------------------------------------------------------ *)
(* Opcodes without behaviour                                            *)
(* ------------------------------------------------------------------ *)
\* The cases whose body is { break; }.
StubOpcodes ==
    { "INST_MACRO_DEF", "INST_END_MACRO", "INST_MACRO_USAGE", "INST_FUNC_DEF",
      "INST_FUNC_CALL", "INST_FUNC_RET", "INST_STRUCT_DEF", "INST_STRUCT_INIT",
      "INST_STRUCT_ACCESS", "INST_TABLE_CREATE", "INST_TABLE_INSERT",
      "INST_TABLE_SELECT", "INST_TABLE_UPDATE", "INST_TABLE_DELETE",
      "INST_SQL_QUERY", "INST_CONCAT_STR", "INST_CHART_PLOT", "INST_EXPORT_DATA",
      "INST_STAT_MEAN", "INST_STAT_MEDIAN", "INST_STAT_MODE", "INST_STAT_STD_DEV",
      "INST_REGRESSION", "INST_CLUSTER", "INST_TIME_SERIES", "INST_API_REQUEST",
      "INST_DB_CONNECT", "INST_DB_QUERY", "INST_ETL_EXTRACT", "INST_ETL_TRANSFORM",
      "INST_ETL_LOAD", "INST_DATA_VALIDATE", "INST_SCRIPT_EXECUTE",
      "INST_JOB_SCHEDULE", "INST_CUSTOM_AGGREGATE", "INST_CUSTOM_TRANSFORM",
      "INST_PARALLEL_EXEC", "INST_ASYNC_EXEC", "INST_ACCESS_CONTROL",
      "INST_ENCRYPT_DATA" }

INST_STUB(s) == s

\* The enumerator without a case, and a value of the inst field that is no
\* enumerator at all.
UnhandledOpcodes == {"INST_THEN", "INST_OUT_OF_RANGE"}

\* The default label with the body of the cases above it: { break; }.
INST_DEFAULT_break(s) == s

\* default:
INST_DEFAULT(s) == PANIC_ON_ERR(s, TRUE, "ERR_ILLEGAL_INSTRUCTION")

(* ------------------------------------------------------------------ *)
(* The dispatch loop                                                    *)
(* ------------------------------------------------------------------ *)
\* PANIC_ON_ERR ends the process with exit(1): nothing runs once an error
\* is reported.
Exited == err # NoError

\* The draft's PANIC_ON_ERR prints and returns.
RunningNoExit == inst_ptr < program_size

\* while (state->inst_ptr < state->program_size), in a process still alive.
Running == ~Exited /\ inst_ptr < program_size

\* Token current_token = state->program[state->inst_ptr++];
CurrentToken == ProgramAt(program, inst_ptr)

Fetched == [State EXCEPT !.inst_ptr = @ + 1]

\* state->inst_ptr++; at the end of the loop body, reached by every break.
EndOfLoopBody(s) == IF Ok(s) THEN [s EXCEPT !.inst_ptr = @ + 1] ELSE s

\* The state the handler leaves becomes the ProgramState.
Commit(s) ==
    /\ inst_ptr' = s.inst_ptr
    /\ stack' = s.stack
    /\ stack_size' = s.stack_size
    /\ heap' = s.heap
    /\ heap_size' = s.heap_size
    /\ stackframe' = s.stackframe
    /\ stackframe_index' = s.stackframe_index
    /\ found_solution_for_if_block' = s.found
    /\ output' = s.output
    /\ err' = s.err
    /\ stack_oob' = s.stack_oob
    /\ heap_oob' = s.heap_oob
    /\ executed' = executed \cup {inst_ptr}
    /\ last_inst' = inst_ptr
    /\ UNCHANGED <<program, heap_table>>

\* One iteration of the loop for the opcodes in ops, whose handler leaves s.
Dispatch(ops, s) ==
    /\ Running
    /\ CurrentToken.inst \in ops
    /\ Commit(EndOfLoopBody(s))

DoStackPush == Dispatch({"INST_STACK_PUSH"}, INST_STACK_PUSH(Fetched, CurrentToken))

DoStackPrev == Dispatch({"INST_STACK_PREV"}, INST_STACK_PREV(Fetched))

DoStackPop == Dispatch({"INST_STACK_POP"}, INST_STACK_POP(Fetched))

DoPlus == \E g \in BOOLEAN : Dispatch({"INST_PLUS"}, INST_PLUS(Fetched, g))

DoMinus == \E g \in BOOLEAN : Dispatch({"INST_MINUS"}, INST_MINUS(Fetched, g))

DoMul == \E g \in BOOLEAN : Dispatch({"INST_MUL"}, INST_MUL(Fetched, g))

DoDiv == \E g \in BOOLEAN : Dispatch({"INST_DIV"}, INST_DIV(Fetched, g))

DoMod == \E g \in BOOLEAN : Dispatch({"INST_MOD"}, INST_MOD(Fetched, g))

DoEq == \E g \in BOOLEAN : Dispatch({"INST_EQ"}, INST_EQ(Fetched, g))

DoNeq == \E g \in BOOLEAN : Dispatch({"INST_NEQ"}, INST_NEQ(Fetched, g))

DoGt == \E g \in BOOLEAN : Dispatch({"INST_GT"}, INST_GT(Fetched, g))

DoLt == \E g \in BOOLEAN : Dispatch({"INST_LT"}, INST_LT(Fetched, g))

DoGeq == \E g \in BOOLEAN : Dispatch({"INST_GEQ"}, INST_GEQ(Fetched, g))

DoLeq == \E g \in BOOLEAN : Dispatch({"INST_LEQ"}, INST_LEQ(Fetched, g))

DoLogicalAnd == \E g \in BOOLEAN : Dispatch({"INST_LOGICAL_AND"}, INST_LOGICAL_AND(Fetched, g))

DoLogicalOr == \E g \in BOOLEAN : Dispatch({"INST_LOGICAL_OR"}, INST_LOGICAL_OR(Fetched, g))

DoIf == Dispatch({"INST_IF"}, INST_IF(Fetched))

DoElse == Dispatch({"INST_ELSE"}, INST_ELSE(Fetched))

DoElif == Dispatch({"INST_ELIF"}, INST_ELIF(Fetched))

DoEndif == Dispatch({"INST_ENDIF"}, INST_ENDIF(Fetched))

DoWhile == Dispatch({"INST_WHILE"}, INST_WHILE(Fetched))

DoRunWhile == Dispatch({"INST_RUN_WHILE"}, INST_RUN_WHILE(Fetched))

DoEndWhile == Dispatch({"INST_END_WHILE"}, INST_END_WHILE(Fetched))

DoPrint == Len(output) < MaxOutput /\ Dispatch({"INST_PRINT"}, INST_PRINT(Fetched))

DoPrintln == Len(output) < MaxOutput /\ Dispatch({"INST_PRINTLN"}, INST_PRINTLN(Fetched))

DoJump == Dispatch({"INST_JUMP"}, INST_JUMP(Fetched))

\* The model follows a run up to its first declaration past the array.
DoAddVarToStackframe ==
    /\ stackframe_index <= STACKFRAME_CAP
    /\ \E u \in WildReads :
            Dispatch({"INST_ADD_VAR_TO_STACKFRAME"}, INST_ADD_VAR_TO_STACKFRAME(Fetched, u))

DoAssign == \E u \in WildReads : Dispatch({"INST_ASSIGN"}, INST_ASSIGN(Fetched, u))

DoVarUsage == \E u \in WildReads : Dispatch({"INST_VAR_USAGE"}, INST_VAR_USAGE(Fetched, u))

DoVarReassign ==
    \E u \in WildReads : Dispatch({"INST_VAR_REASSIGN"}, INST_VAR_REASSIGN(Fetched, u))

DoHeapAlloc == Dispatch({"INST_HEAP_ALLOC"}, INST_HEAP_ALLOC(Fetched))

DoHeapFree == Dispatch({"INST_HEAP_FREE"}, INST_HEAP_FREE(Fetched))

DoPtrGetI == \E u \in WildReads : Dispatch({"INST_PTR_GET_I"}, INST_PTR_GET_I(Fetched, u))

DoPtrSetI == \E u \in WildReads : Dispatch({"INST_PTR_SET_I"}, INST_PTR_SET_I(Fetched, u))

DoIntType == Dispatch({"INST_INT_TYPE"}, INST_INT_TYPE(Fetched))

DoStrType == \E u \in WildReads : Dispatch({"INST_STR_TYPE"}, INST_STR_TYPE(Fetched, u))

DoStub == Dispatch(StubOpcodes, INST_STUB(Fetched))

DoDefault == Dispatch(UnhandledOpcodes, INST_DEFAULT(Fetched))

Next ==
    \/ DoStackPush \/ DoStackPrev \/ DoStackPop
    \/ DoPlus \/ DoMinus \/ DoMul \/ DoDiv \/ DoMod
    \/ DoEq \/ DoNeq \/ DoGt \/ DoLt \/ DoGeq \/ DoLeq
    \/ DoLogicalAnd \/ DoLogicalOr
    \/ DoIf \/ DoElse \/ DoElif \/ DoEndif
    \/ DoWhile \/ DoRunWhile \/ DoEndWhile
    \/ DoPrint \/ DoPrintln
    \/ DoJump
    \/ DoAddVarToStackframe \/ DoAssign \/ DoVarUsage \/ DoVarReassign
    \/ DoHeapAlloc \/ DoHeapFree \/ DoPtrGetI \/ DoPtrSetI
    \/ DoIntType \/ DoStrType
    \/ DoStub
    \/ DoDefault

(* ------------------------------------------------------------------ *)
(* Programs                                                             *)
(* ------------------------------------------------------------------ *)
\* A token whose operand is zeroed, and one whose operand is the integer d.
Op(inst) == Tok(inst, ZeroValue)

OpInt(inst, d) == Tok(inst, RV(d, "VAR_TYPE_INT", FALSE))

\* A token that does nothing: a case whose body is { break; }.
Nop == Op("INST_MACRO_DEF")

\* The program p with a token that does nothing after each of its tokens.
Padded(p) ==
    [i \in 1..(2 * Len(p)) |-> IF i % 2 = 1 THEN p[(i + 1) \div 2] ELSE Nop]

\* Every program of at most MaxProgLen tokens over this alphabet.
Alphabet ==
    { OpInt("INST_STACK_PUSH", 0), OpInt("INST_STACK_PUSH", 1),
      Op("INST_STACK_POP"), Op("INST_STACK_PREV"), Op("INST_PLUS"),
      Op("INST_PRINTLN"), Op("INST_IF"), Op("INST_ELSE"), Op("INST_ENDIF"),
      Op("INST_WHILE"), Op("INST_END_WHILE") }

ShortPrograms == UNION {[1..n -> Alphabet] : n \in 1..MaxProgLen}

\* [pop]
PopProgram == <<Op("INST_STACK_POP")>>

\* A loop that pushes for ever: the jump at 0 reads the operand 0 of the
\* token at 1 and, with the increment that ends the loop body, continues at
\* 1; the jump at 3 reads the zeroed token past the program.
PushLoopProgram ==
    << Op("INST_JUMP"), OpInt("INST_STACK_PUSH", 0), Nop, Op("INST_JUMP") >>

\* The same loop around an integer load, and one that pushes once and then
\* duplicates the top for ever.
PushLoopPrograms ==
    { PushLoopProgram,
      << Op("INST_JUMP"), Op("INST_INT_TYPE"), Nop, Op("INST_JUMP") >>,
      << OpInt("INST_STACK_PUSH", 0), Op("INST_STACK_PREV"),
         Op("INST_JUMP"), Op("INST_JUMP") >> }

\* [load integer 42, load integer 8, plus, println]
AddProgram ==
    << OpInt("INST_INT_TYPE", 42), OpInt("INST_INT_TYPE", 8),
       Op("INST_PLUS"), Op("INST_PRINTLN") >>

\* The same, laid out as the dispatch loop decodes: each operand in the
\* token after its instruction, and a token after each instruction.
AddProgramPadded ==
    << Op("INST_INT_TYPE"), OpInt("INST_MACRO_DEF", 42),
       Op("INST_INT_TYPE"), OpInt("INST_MACRO_DEF", 8),
       Op("INST_PLUS"), Nop, Op("INST_PRINTLN"), Nop >>

BinaryOpcodes ==
    { "INST_PLUS", "INST_MINUS", "INST_MUL", "INST_DIV", "INST_MOD", "INST_EQ",
      "INST_NEQ", "INST_GT", "INST_LT", "INST_GEQ", "INST_LEQ",
      "INST_LOGICAL_AND", "INST_LOGICAL_OR" }

Operands ==
    { RV(7, "VAR_TYPE_INT", FALSE), RV(0, "VAR_TYPE_INT", FALSE),
      RV(2, "VAR_TYPE_CHAR", FALSE), RV(3, "VAR_TYPE_DOUBLE", FALSE),
      RV(1, "VAR_TYPE_TABLE", FALSE) }

\* push a; push b; op; print
BinaryPrograms ==
    { Padded(<< Tok("INST_STACK_PUSH", a), Tok("INST_STACK_PUSH", b),
                Op(op), Op("INST_PRINT") >>) :
        a \in Operands, b \in Operands, op \in BinaryOpcodes }

VarAlphabet ==
    { OpInt("INST_STACK_PUSH", 5), Tok("INST_STACK_PUSH", RV(0, "VAR_TYPE_STR", TRUE)),
      Op("INST_ADD_VAR_TO_STACKFRAME"), Op("INST_ASSIGN"), Op("INST_VAR_USAGE"),
      Op("INST_VAR_REASSIGN"),
      Op("INST_HEAP_ALLOC"), Op("INST_HEAP_FREE") }

\* Programs over the variable and heap instructions, three instructions long.
VarPrograms == { Padded(p) : p \in [1..3 -> VarAlphabet] }

OtherPrograms ==
    { << Op("INST_FUNC_CALL"), Nop, Op("INST_THEN") >>,
      << OpInt("INST_STACK_PUSH", 1), Nop, Op("INST_OUT_OF_RANGE"), Nop,
         Op("INST_PRINTLN") >>,
      << OpInt("INST_STACK_PUSH", 1), Nop, Op("INST_THEN"), Nop,
         Op("INST_PRINTLN") >>,
      << OpInt("INST_STACK_PUSH", 1), Nop, Op("INST_IF"), Nop, Op("INST_ELIF"),
         Nop, Op("INST_RUN_WHILE") >> }

\* Longest bodies of the if/else programs.
MaxBodyA == 5

MaxBodyB == 3

\* The instructions of the two bodies of an if/else program.
BodyA == Op("INST_FUNC_CALL")

BodyB == Op("INST_FUNC_RET")

\* push c; if; na instructions A; else; nb instructions B; endif
IfElseProgram(c, na, nb) ==
    << OpInt("INST_STACK_PUSH", c), Op("INST_IF") >>
    \o [i \in 1..na |-> BodyA]
    \o << Op("INST_ELSE") >>
    \o [i \in 1..nb |-> BodyB]
    \o << Op("INST_ENDIF") >>

IfElsePrograms ==
    { IfElseProgram(c, na, nb) : c \in {0, 1, 2}, na \in 1..MaxBodyA, nb \in 1..MaxBodyB }

\* A complete inner block: push c; if; A; [else; B;] endif, around the
\* tokens mid, a token after each instruction.
InnerBlock(c, mid, with_else) ==
    << OpInt("INST_STACK_PUSH", c), Nop, Op("INST_IF"), Nop >> \o mid
    \o << BodyA, Nop >>
    \o (IF with_else THEN << Op("INST_ELSE"), Nop, BodyB, Nop >> ELSE << >>)
    \o << Op("INST_ENDIF"), Nop >>

\* The blocks nested in the first branch of the outer if: none, one block
\* with or without else, and a block in a block.
InnerBlocks ==
    { << >> }
    \cup { InnerBlock(c, << >>, e) : c \in {0, 1}, e \in BOOLEAN }
    \cup { InnerBlock(1, InnerBlock(1, << >>, e1), e2) : e1 \in BOOLEAN, e2 \in BOOLEAN }

\* push c; if; <inner block>; A; close; B; endif; print, where close is the
\* else or elif of the outer if, a token after each instruction.
NestedIfPrograms ==
    { << OpInt("INST_STACK_PUSH", c), Nop, Op("INST_IF"), Nop >> \o inner
      \o << BodyA, Nop, Op(close), Nop, BodyB, Nop, Op("INST_ENDIF"), Nop,
            OpInt("INST_STACK_PUSH", 1), Nop, Op("INST_PRINTLN") >> :
        c \in {0, 1}, inner \in InnerBlocks, close \in {"INST_ELSE", "INST_ELIF"} }

\* push 0; if; <inner block>; A; push 1; println: an if that no else, elif
\* or endif closes, a token after each instruction.
OpenIfPrograms ==
    { << OpInt("INST_STACK_PUSH", c), Nop, Op("INST_IF"), Nop >> \o inner
      \o << BodyA, Nop, OpInt("INST_STACK_PUSH", 1), Nop, Op("INST_PRINTLN") >> :
        c \in {0, 1}, inner \in InnerBlocks }

\* push old; declare; push v; reassign; usage, a token after each
\* instruction.
ReassignProgram(old, v) ==
    Padded(<< Tok("INST_STACK_PUSH", old), Op("INST_ADD_VAR_TO_STACKFRAME"),
              Tok("INST_STACK_PUSH", v), Op("INST_VAR_REASSIGN"),
              Op("INST_VAR_USAGE") >>)

\* The values a binding holds before the reassign: every scalar tag and the
\* string tag, with payloads below and above 32 bits.
OldValues ==
    { RV(d, t, FALSE) : d \in {3, IntMod + 3}, t \in ScalarTypes \cup {"VAR_TYPE_STR"} }

\* The values stored by the reassign: one of each scalar tag.
NewScalars == { RV(5, t, FALSE) : t \in ScalarTypes }

ReassignPrograms ==
    { ReassignProgram(old, v) : old \in OldValues, v \in NewScalars }

\* The instruction of the third body of an if/elif/else program.
BodyC == Op("INST_STRUCT_DEF")

\* push c1; if; A; push c2; elif; B; else; C; endif
ElifChain(c1, c2) ==
    << OpInt("INST_STACK_PUSH", c1), Op("INST_IF"), BodyA,
       OpInt("INST_STACK_PUSH", c2), Op("INST_ELIF"), BodyB,
       Op("INST_ELSE"), BodyC, Op("INST_ENDIF") >>

\* The chain as it is, and with a token after each instruction.
ElifPrograms ==
    { ElifChain(c1, c2) : c1 \in {0, 1}, c2 \in {0, 1} }
    \cup { Padded(ElifChain(c1, c2)) : c1 \in {0, 1}, c2 \in {0, 1} }

\* i = 0; while i < 3 { print(i); i = i + 1 } end_while, one token an
\* instruction, each with its operand inline.
CountingLoopProgram ==
    << OpInt("INST_INT_TYPE", 0), Op("INST_ADD_VAR_TO_STACKFRAME"),
       Op("INST_VAR_USAGE"), OpInt("INST_INT_TYPE", 3), Op("INST_LT"),
       Op("INST_WHILE"),
       Op("INST_VAR_USAGE"), Op("INST_PRINT"),
       Op("INST_VAR_USAGE"), OpInt("INST_INT_TYPE", 1), Op("INST_PLUS"),
       Op("INST_VAR_REASSIGN"),
       Op("INST_END_WHILE") >>

\* The same loop laid out as the dispatch loop decodes: each operand in the
\* token after its instruction, and a token after each instruction.
CountingLoopPadded ==
    << Op("INST_INT_TYPE"), OpInt("INST_MACRO_DEF", 0),
       Op("INST_ADD_VAR_TO_STACKFRAME"), Nop,
       Op("INST_VAR_USAGE"), Nop,
       Op("INST_INT_TYPE"), OpInt("INST_MACRO_DEF", 3),
       Op("INST_LT"), Nop,
       Op("INST_WHILE"), Nop,
       Op("INST_VAR_USAGE"), Nop,
       Op("INST_PRINT"), Nop,
       Op("INST_VAR_USAGE"), Nop,
       Op("INST_INT_TYPE"), OpInt("INST_MACRO_DEF", 1),
       Op("INST_PLUS"), Nop,
       Op("INST_VAR_REASSIGN"), Nop,
       Op("INST_END_WHILE"), Nop >>

CountingLoops == {CountingLoopProgram, CountingLoopPadded}

\* Largest operand of the jump programs.
MaxJump == 5

\* jump t, followed by three tokens the first of which carries the operand n.
JumpPrograms ==
    { << OpInt("INST_JUMP", t), OpInt("INST_MACRO_DEF", n), Nop, Nop >> :
        t \in 0..MaxJump, n \in 0..MaxJump }

\* push c; while; n instructions A; end_while; B, a token after the push.
WhileProgram(c, n) ==
    << OpInt("INST_STACK_PUSH", c), Nop, Op("INST_WHILE") >>
    \o [i \in 1..n |-> BodyA]
    \o << Op("INST_END_WHILE"), BodyB >>

WhilePrograms == { WhileProgram(c, n) : c \in {0, 1}, n \in 0..MaxBodyB }

\* The integers the division programs push, as the payloads they are stored as.
DivOperands == {-7, -6, -1, 0, 2, 3, 7}

\* push a; push b; div, a token after each instruction.
DivPrograms ==
    { Padded(<< OpInt("INST_STACK_PUSH", ToSize(a)), OpInt("INST_STACK_PUSH", ToSize(b)),
                Op("INST_DIV") >>) :
        a \in DivOperands, b \in DivOperands }

\* push a; push b; minus, a token after each instruction, over integers of
\* both signs and the smallest one, where the difference wraps.
MinusPrograms ==
    { Padded(<< OpInt("INST_STACK_PUSH", ToSize(a)), OpInt("INST_STACK_PUSH", ToSize(b)),
                Op("INST_MINUS") >>) :
        a \in DivOperands \cup {-(SizeMod \div 2)}, b \in DivOperands }

\* An integer load with the operand a, alone or followed by a token with
\* the operand b.
IntLoadPrograms ==
    { << OpInt("INST_INT_TYPE", ToSize(a)) >> : a \in {-1, 0, 5} }
    \cup { << OpInt("INST_INT_TYPE", ToSize(a)), OpInt("INST_MACRO_DEF", ToSize(b)) >> :
             a \in {-1, 0, 5}, b \in {-1, 0, 5, 9} }

CompareOpcodes ==
    {"INST_EQ", "INST_NEQ", "INST_GT", "INST_LT", "INST_GEQ", "INST_LEQ"}

\* push a; push b; compare, a token after each instruction, over signed
\* integers of both signs.
ComparePrograms ==
    { Padded(<< OpInt("INST_STACK_PUSH", ToSize(a)), OpInt("INST_STACK_PUSH", ToSize(b)),
                Op(w) >>) :
        a \in {-7, -1, 0, 1, 7}, b \in {-7, -1, 0, 1, 7}, w \in CompareOpcodes }

\* The element count the heap programs allocate with.
AllocCount == 4

\* push AllocCount; allocate a slot of type t; declare a variable that holds
\* the reference.  The type is in the token after the allocation.
RefPrefix(t) ==
    << OpInt("INST_STACK_PUSH", AllocCount), Nop,
       Op("INST_HEAP_ALLOC"), Tok("INST_MACRO_DEF", RV(0, t, FALSE)),
       Op("INST_ADD_VAR_TO_STACKFRAME"), Nop >>

\* Push the reference the variable holds, then the instruction inst.
UseRef(inst) == << Op("INST_VAR_USAGE"), Nop, Op(inst), Nop >>

\* set(r, i, v), get(r, i) and free(r) on the reference the variable holds.
HeapSet(i, v) ==
    << Tok("INST_STACK_PUSH", v), Nop, OpInt("INST_STACK_PUSH", i), Nop >>
    \o UseRef("INST_PTR_SET_I")

HeapGet(i) == << OpInt("INST_STACK_PUSH", i), Nop >> \o UseRef("INST_PTR_GET_I")

HeapFree == UseRef("INST_HEAP_FREE")

\* The values the heap programs store: integers inside and outside the range
\* of int, and a character.
HeapValues ==
    { RV(1, "VAR_TYPE_INT", FALSE), RV(5, "VAR_TYPE_INT", FALSE),
      RV(IntMod \div 2, "VAR_TYPE_INT", FALSE), RV(2, "VAR_TYPE_CHAR", FALSE) }

\* allocate; set(r, i, v); get(r, j)
SetGetProgram(t, i, v, j) == RefPrefix(t) \o HeapSet(i, v) \o HeapGet(j)

SetGetPrograms ==
    { SetGetProgram(t, i, v, j) :
        t \in {"VAR_TYPE_INT", "VAR_TYPE_CHAR", "VAR_TYPE_STR"},
        i \in 0..AllocCount, v \in HeapValues, j \in 0..AllocCount }

\* Allocate one more slot and drop its reference.
AllocAndDrop ==
    << OpInt("INST_STACK_PUSH", 1), Nop,
       Op("INST_HEAP_ALLOC"), Tok("INST_MACRO_DEF", RV(0, "VAR_TYPE_INT", FALSE)),
       Op("INST_STACK_POP"), Nop >>

\* allocate; free(r); other allocations and frees; then get, set or free on r.
AfterFreePrograms ==
    { RefPrefix("VAR_TYPE_INT") \o HeapFree \o between \o last :
        between \in { << >>, AllocAndDrop, AllocAndDrop \o HeapFree },
        last \in { HeapFree, HeapGet(0), HeapSet(0, RV(5, "VAR_TYPE_INT", FALSE)) } }

\* allocate; free applied to a literal value v.
LiteralFreePrograms ==
    { RefPrefix("VAR_TYPE_INT") \o << Tok("INST_STACK_PUSH", RV(k, "VAR_TYPE_INT", h)), Nop,
                                      Op("INST_HEAP_FREE") >> :
        k \in {0, 1, IntMod, IntMod + 1}, h \in BOOLEAN }

\* A loop that allocates for ever and drops each reference: the jump at 8
\* reads the operand 1 of the token at 9 and, with the increment that ends
\* the loop body, continues at 2.
AllocLoopProgram ==
    << Nop, Nop,
       OpInt("INST_STACK_PUSH", 1), Nop,
       Op("INST_HEAP_ALLOC"), Tok("INST_MACRO_DEF", RV(0, "VAR_TYPE_INT", FALSE)),
       Op("INST_STACK_POP"), Nop,
       Op("INST_JUMP"), OpInt("INST_MACRO_DEF", 1) >>

\* A loop that declares variables for ever: the jump at 6 reads the operand
\* 1 of the token at 7 and, with the increment that ends the loop body,
\* continues at 2.
DeclLoopProgram ==
    << Nop, Nop,
       OpInt("INST_STACK_PUSH", 1), Nop,
       Op("INST_ADD_VAR_TO_STACKFRAME"), Nop,
       Op("INST_JUMP"), OpInt("INST_MACRO_DEF", 1) >>

\* A string literal load: the address of the chars is in the next token.
StrLit(addr) ==
    << Op("INST_STR_TYPE"), Tok("INST_MACRO_DEF", RV(addr, "VAR_TYPE_STR", FALSE)) >>

\* The operands of the string loads: the three literals, the null pointer
\* and an address where no string is.
StrOperands == DOMAIN StringLiterals \cup {0, 1}

\* Load a string literal and declare a variable from it; or allocate a
\* string slot, drop the reference, and declare a variable from a pushed
\* value tagged VAR_TYPE_STR that refers to the slot.
StrBindings ==
    { StrLit(4096) \o << Op("INST_ADD_VAR_TO_STACKFRAME"), Nop >>,
      << OpInt("INST_STACK_PUSH", 2), Nop,
         Op("INST_HEAP_ALLOC"), Tok("INST_MACRO_DEF", RV(0, "VAR_TYPE_STR", FALSE)),
         Op("INST_STACK_POP"), Nop,
         Tok("INST_STACK_PUSH", RV(0, "VAR_TYPE_STR", TRUE)), Nop,
         Op("INST_ADD_VAR_TO_STACKFRAME"), Nop >> }

\* What is written over the string binding: an integer, the address of a
\* string tagged VAR_TYPE_STR, or a second string literal.
NewValues ==
    { << OpInt("INST_STACK_PUSH", 1), Nop >>,
      << Tok("INST_STACK_PUSH", RV(4128, "VAR_TYPE_STR", FALSE)), Nop >>,
      StrLit(4128) }

\* declare a string binding; push the new value; assign or reassign; then
\* use the variable.
OverwritePrograms ==
    { b \o v \o << Op(w), Nop, Op("INST_VAR_USAGE"), Nop >> :
        b \in StrBindings, v \in NewValues,
        w \in {"INST_ASSIGN", "INST_VAR_REASSIGN"} }

\* A string literal load followed by println or print; and the address of
\* a string pushed with the tag VAR_TYPE_STR and printed.
StrPrintPrograms ==
    { StrLit(a) \o << Op(w) >> : a \in StrOperands, w \in {"INST_PRINTLN", "INST_PRINT"} }
    \cup { << Tok("INST_STACK_PUSH", RV(a, "VAR_TYPE_STR", FALSE)), Nop, Op("INST_PRINTLN") >> :
             a \in DOMAIN StringLiterals }

HeapPrograms ==
    OverwritePrograms \cup StrPrintPrograms \cup SetGetPrograms \cup AfterFreePrograms \cup LiteralFreePrograms \cup {AllocLoopProgram}

Programs ==
    ShortPrograms \cup WhilePrograms \cup DivPrograms \cup MinusPrograms
    \cup IntLoadPrograms
    \cup ComparePrograms
    \cup HeapPrograms
    \cup {DeclLoopProgram}
    \cup {PopProgram, AddProgram, AddProgramPadded} \cup PushLoopPrograms
    \cup BinaryPrograms \cup VarPrograms \cup OtherPrograms
    \cup IfElsePrograms \cup NestedIfPrograms \cup OpenIfPrograms \cup ElifPrograms
    \cup ReassignPrograms
    \cup CountingLoops \cup JumpPrograms

(* ------------------------------------------------------------------ *)
(* Specification                                                        *)
(* ------------------------------------------------------------------ *)
\* main: memset(&state, 0, sizeof(ProgramState)), then the program is
\* copied in.  main leaves state->heap null; a run whose embedding has
\* allocated the table of STACK_CAP slots starts with heap_table true.
\* Whether a program reaches heap_alloc, the one place state->heap is
\* dereferenced at an index that may be below heap_size.
UsesHeapTable(prog) ==
    \E i \in 1..Len(prog) : prog[i].inst \in {"INST_HEAP_ALLOC", "INST_STR_TYPE"}

Init ==
    /\ program \in Programs
    /\ inst_ptr = 0
    /\ stack = << >>
    /\ stack_size = 0
    /\ heap = << >>
    /\ heap_size = 0
    /\ heap_table \in (IF UsesHeapTable(program) THEN BOOLEAN ELSE {FALSE})
    /\ stackframe = << >>
    /\ stackframe_index = 0
    /\ found_solution_for_if_block = FALSE
    /\ output = << >>
    /\ err = NoError
    /\ stack_oob = FALSE
    /\ heap_oob = FALSE
    /\ executed = {}
    /\ last_inst = -1

Spec == Init /\ [][Next]_vars

(* ------------------------------------------------------------------ *)
(* Properties                                                           *)
(* ------------------------------------------------------------------ *)
\* The run is over: the loop condition is false, or the process has exited.
Halted == ~Running

\* The error kinds PANIC_ON_ERR reports.
PanicKinds ==
    { "ERR_STACK_OVERFLOW", "ERR_STACK_UNDERFLOW", "ERR_INVALID_JUMP",
      "ERR_INVALID_STACK_ACCESS", "ERR_INVALID_DATA_TYPE",
      "ERR_ILLEGAL_INSTRUCTION", "ERR_INVALID_PTR" }

\* C1: in every reachable state the operand stack size is between 0 and
\* STACK_CAP, the live cells are exactly the cells below the size, and no
\* instruction has read or written a stack cell outside 0 .. STACK_CAP-1.
C1_StackBounds ==
    /\ stack_size \in 0..STACK_CAP
    /\ Len(stack) = stack_size
    /\ ~stack_oob

\* C1 at its boundary: a push met a full stack and was refused.
C1_Witness ==
    /\ stack_size = STACK_CAP
    /\ err = "ERR_STACK_OVERFLOW"
    /\ ~stack_oob

\* C2: once an error is reported nothing changes any more (no instruction is
\* dispatched; stack, heap, stackframe and output stay as they are), and the
\* step that reports the error leaves inst_ptr where the fetch of the failing
\* instruction put it.
C2_ErrorStops ==
    [][ /\ (err # NoError => UNCHANGED vars)
        /\ (err = NoError /\ err' # NoError =>
                /\ inst_ptr' = inst_ptr + 1
                /\ last_inst' = inst_ptr) ]_vars

\* C2's case: an error check fired while instructions were left to run.
C2_Witness ==
    /\ err \in PanicKinds
    /\ inst_ptr < program_size
    /\ last_inst = inst_ptr - 1

\* The instructions that push without popping first.
PushOpcodes == {"INST_STACK_PUSH", "INST_STACK_PREV", "INST_INT_TYPE"}

\* C3: a push on a stack of STACK_CAP values fails with ERR_STACK_OVERFLOW
\* and a pop on an empty stack with ERR_STACK_UNDERFLOW, the stack left as it
\* was; the program [pop] fails with ERR_STACK_UNDERFLOW and no output.
C3_OverflowUnderflow ==
    [][ /\ (Running /\ stack_size = STACK_CAP /\ CurrentToken.inst \in PushOpcodes =>
                err' = "ERR_STACK_OVERFLOW" /\ stack' = stack /\ stack_size' = stack_size)
        /\ (Running /\ stack_size = 0 /\ CurrentToken.inst = "INST_STACK_POP" =>
                err' = "ERR_STACK_UNDERFLOW" /\ stack' = stack /\ stack_size' = 0)
        /\ (Running /\ program = PopProgram =>
                err' = "ERR_STACK_UNDERFLOW" /\ output' = << >> /\ ~Running') ]_vars

\* C3's scenario: [pop] has run, and has failed without output.
C3_Witness ==
    /\ program = PopProgram
    /\ last_inst = 0
    /\ err = "ERR_STACK_UNDERFLOW"
    /\ output = << >>

\* The opcodes that may set inst_ptr.
BranchOpcodes ==
    { "INST_IF", "INST_ELSE", "INST_ELIF", "INST_WHILE", "INST_END_WHILE", "INST_JUMP" }

\* C4: after a non-branching instruction at index i has run without error,
\* inst_ptr is i + 1.
C4_AdvanceByOne ==
    [][ (Running /\ CurrentToken.inst \notin BranchOpcodes /\ err' = NoError) =>
            inst_ptr' = inst_ptr + 1 ]_vars

\* C5: [load integer 42, load integer 8, plus, println] ends without error,
\* inst_ptr at or past the program size, its whole output "50" and a line
\* break.
C5_AddPrintsFifty ==
    (program = AddProgram /\ Halted) =>
        /\ err = NoError
        /\ inst_ptr >= program_size
        /\ output = << "5", "0", "\n" >>

\* The indices of the tokens of prog that are the token tok.
IndicesOf(prog, tok) == { i \in 0..(Len(prog) - 1) : prog[i + 1] = tok }

\* C6: a program <condition>; if; A; else; B; endif, once over, has run
\* every instruction of B and none of A when the condition is 0, and every
\* instruction of A and none of B otherwise.
C6_ExactlyOneBody ==
    (program \in IfElsePrograms /\ Halted) =>
        LET A == IndicesOf(program, BodyA)
            B == IndicesOf(program, BodyB)
        IN  /\ err = NoError
            /\ IF program[1].val.data = 0
               THEN B \subseteq executed /\ A \cap executed = {}
               ELSE A \subseteq executed /\ B \cap executed = {}

\* C7: the counting loop, once over, has printed 0, 1, 2 in that order and
\* nothing else, without error, inst_ptr past the end_while.
C7_CountingLoop ==
    (program \in CountingLoops /\ Halted) =>
        /\ err = NoError
        /\ output = << "0", "1", "2" >>
        /\ inst_ptr >= program_size

\* while opens and end_while closes, and every prefix closes no more than it
\* has opened: the blocks of prog from index i on, entered at depth.
RECURSIVE WellNestedFrom(_, _, _)
WellNestedFrom(prog, i, depth) ==
    IF i >= Len(prog) THEN depth = 0
    ELSE LET inst == prog[i + 1].inst
         IN  IF inst = "INST_WHILE" THEN WellNestedFrom(prog, i + 1, depth + 1)
             ELSE IF inst = "INST_END_WHILE"
                  THEN depth > 0 /\ WellNestedFrom(prog, i + 1, depth - 1)
                  ELSE WellNestedFrom(prog, i + 1, depth)

WellNestedWhile(prog) == WellNestedFrom(prog, 0, 0)

\* The index of the end_while that closes the block entered before index i.
RECURSIVE EndWhileFrom(_, _, _)
EndWhileFrom(prog, i, depth) ==
    LET inst == prog[i + 1].inst
    IN  IF inst = "INST_END_WHILE"
        THEN IF depth = 0 THEN i ELSE EndWhileFrom(prog, i + 1, depth - 1)
        ELSE IF inst = "INST_WHILE" THEN EndWhileFrom(prog, i + 1, depth + 1)
        ELSE EndWhileFrom(prog, i + 1, depth)

\* The index of the while that opens the block left after index i.
RECURSIVE WhileBefore(_, _, _)
WhileBefore(prog, i, depth) ==
    LET inst == prog[i + 1].inst
    IN  IF inst = "INST_WHILE"
        THEN IF depth = 0 THEN i ELSE WhileBefore(prog, i - 1, depth - 1)
        ELSE IF inst = "INST_END_WHILE" THEN WhileBefore(prog, i - 1, depth + 1)
        ELSE WhileBefore(prog, i - 1, depth)

\* C8: in a program with well-nested while blocks, a while that pops 0
\* leaves inst_ptr just after its matching end_while, without error.
C8_WhileFalseSkips ==
    [][ ( /\ Running
          /\ CurrentToken.inst = "INST_WHILE"
          /\ WellNestedWhile(program)
          /\ stack_size > 0
          /\ stack[stack_size].data = 0 ) =>
            /\ err' = NoError
            /\ inst_ptr' = EndWhileFrom(program, inst_ptr + 1, 0) + 1 ]_vars

\* C9: in a program with well-nested while blocks, an end_while leaves
\* inst_ptr just after its matching while.
C9_EndWhileLoopsBack ==
    [][ ( /\ Running
          /\ CurrentToken.inst = "INST_END_WHILE"
          /\ WellNestedWhile(program) ) =>
            /\ err' = NoError
            /\ inst_ptr' = WhileBefore(program, inst_ptr - 1, 0) + 1 ]_vars

\* C10: a jump whose own operand is t leaves inst_ptr at t when t is less
\* than the program size, and otherwise fails with ERR_INVALID_JUMP.
C10_JumpToOperand ==
    [][ (Running /\ CurrentToken.inst = "INST_JUMP") =>
            LET t == CurrentToken.val.data
            IN  IF t < program_size
                THEN err' = NoError /\ inst_ptr' = t
                ELSE err' = "ERR_INVALID_JUMP" ]_vars

\* A size_t payload read as a signed integer of the same width.
ToSigned(d) == IF d >= SizeMod \div 2 THEN d - SizeMod ELSE d

Abs(n) == IF n < 0 THEN -n ELSE n

\* The quotient a / b of signed integer division, which truncates towards zero.
SignedQuotient(a, b) ==
    IF (a < 0) = (b < 0) THEN Abs(a) \div Abs(b) ELSE -(Abs(a) \div Abs(b))

\* C11: a div executed on two integers a (below the top) and b (on top),
\* read as signed, replaces them by the signed quotient a / b when b is not
\* 0, and fails with ERR_INVALID_DATA_TYPE when b is 0.
C11_SignedDivision ==
    [][ ( /\ Running
          /\ CurrentToken.inst = "INST_DIV"
          /\ stack_size >= 2
          /\ stack[stack_size].var_type = "VAR_TYPE_INT"
          /\ stack[stack_size - 1].var_type = "VAR_TYPE_INT" ) =>
            LET a == ToSigned(stack[stack_size - 1].data)
                b == ToSigned(stack[stack_size].data)
            IN  IF b = 0
                THEN err' = "ERR_INVALID_DATA_TYPE"
                ELSE /\ err' = NoError
                     /\ stack_size' = stack_size - 1
                     /\ ToSigned(stack'[stack_size'].data) = SignedQuotient(a, b) ]_vars

\* C12: after allocate(Int, AllocCount) has yielded the reference r, for
\* every index i below AllocCount and every integer v, set(r, i, v) then
\* get(r, i) ends without error with v on the stack, and no storage outside
\* the slot's buffer has been touched.
C12_SetThenGet ==
    \A i \in 0..(AllocCount - 1), v \in HeapValues :
        ( /\ v.var_type = "VAR_TYPE_INT"
          /\ program = SetGetProgram("VAR_TYPE_INT", i, v, i)
          /\ heap_table
          /\ Halted ) =>
            /\ err = NoError
            /\ stack_size = 1
            /\ stack[1].data = v.data
            /\ ~heap_oob

\* The instructions that take a reference on top of the stack, and the
\* number of values each pops.
RefOpcodes == {"INST_HEAP_FREE", "INST_PTR_GET_I", "INST_PTR_SET_I"}

Pops(inst) ==
    CASE inst = "INST_HEAP_FREE" -> 1
      [] inst = "INST_PTR_GET_I" -> 2
      [] inst = "INST_PTR_SET_I" -> 3

\* The value on top of the stack is a reference to a slot handed out.
TopIsReference ==
    /\ stack_size > 0
    /\ stack[stack_size].heap_ptr
    /\ stack[stack_size].data < heap_size

\* The slot the reference on top of the stack denotes.
TopSlot == heap[stack[stack_size].data + 1]

\* C13: a get, set or free executed on a reference whose slot has been freed
\* fails with ERR_INVALID_PTR.
C13_UseAfterFree ==
    [][ ( /\ Running
          /\ CurrentToken.inst \in RefOpcodes
          /\ stack_size >= Pops(CurrentToken.inst)
          /\ TopIsReference
          /\ TopSlot.data.null ) =>
            err' = "ERR_INVALID_PTR" ]_vars

\* The heap with the slot at index i marked as freed.
Freed(h, i) == [h EXCEPT ![i + 1].data = NullPtr]

\* C14: a free of a value that is not a reference, or of a reference whose
\* index is at or past the number of slots handed out, fails with
\* ERR_INVALID_PTR and changes no slot; a free that succeeds marks the slot of
\* that index as freed, and changes no other slot and not the slot count.
C14_FreeChecks ==
    [][ ( /\ Running
          /\ CurrentToken.inst = "INST_HEAP_FREE"
          /\ stack_size >= 1 ) =>
            LET v == stack[stack_size]
            IN  /\ (~v.heap_ptr \/ v.data >= heap_size) =>
                        /\ err' = "ERR_INVALID_PTR"
                        /\ heap' = heap
                        /\ heap_size' = heap_size
                /\ (err' = NoError) =>
                        /\ v.heap_ptr
                        /\ v.data < heap_size
                        /\ heap' = Freed(heap, v.data)
                        /\ heap_size' = heap_size ]_vars

\* A get or set is about to run on a reference to a slot that is live.
AtLiveAccess(ops) ==
    /\ Running
    /\ CurrentToken.inst \in ops
    /\ stack_size >= Pops(CurrentToken.inst)
    /\ TopIsReference
    /\ ~TopSlot.data.null

\* C15: a get or set on a live slot allocated with AllocCount elements, at an
\* index at or past AllocCount, is rejected with an error, the heap is left as
\* it was and no memory outside the slot is read or written.
C15_BoundsChecked ==
    [][ ( /\ AtLiveAccess({"INST_PTR_GET_I", "INST_PTR_SET_I"})
          /\ program \in SetGetPrograms
          /\ stack[stack_size - 1].data >= AllocCount ) =>
            /\ err' \in PanicKinds
            /\ heap' = heap
            /\ heap_oob' = heap_oob ]_vars

\* C16: a set of a value whose tag is not the tag of the slot fails with
\* ERR_INVALID_DATA_TYPE and leaves the heap as it was.
C16_SetTypeChecked ==
    [][ ( /\ AtLiveAccess({"INST_PTR_SET_I"})
          /\ stack[stack_size - 2].var_type # TopSlot.var_type ) =>
            /\ err' = "ERR_INVALID_DATA_TYPE"
            /\ heap' = heap ]_vars

\* C17: an allocation that succeeds adds exactly one slot, after the slots
\* there were and without changing them, and pushes exactly one value, the
\* reference whose index is the slot count before; an allocation met with
\* STACK_CAP slots fails with ERR_STACK_OVERFLOW; a string literal load,
\* which allocates through the same heap_alloc, adds one slot and pushes its
\* reference in the same way; and no other instruction changes the slot
\* count, so no index is handed out twice and the slot of a freed reference
\* is not handed out again.
C17_AllocAppends ==
    [][ /\ ( /\ Running
             /\ CurrentToken.inst = "INST_HEAP_ALLOC"
             /\ err' = NoError ) =>
                /\ heap_size' = heap_size + 1
                /\ SubSeq(heap', 1, heap_size) = heap
                /\ ~heap'[heap_size'].data.null
                /\ stack_size' = stack_size
                /\ stack' = Append(SubSeq(stack, 1, stack_size - 1),
                                   RV(heap_size, "VAR_TYPE_INT", TRUE))
        /\ ( /\ Running
             /\ CurrentToken.inst = "INST_STR_TYPE"
             /\ err' = NoError ) =>
                /\ heap_size' = heap_size + 1
                /\ SubSeq(heap', 1, heap_size) = heap
                /\ ~heap'[heap_size'].data.null
                /\ stack' = Append(stack, RV(heap_size, "VAR_TYPE_INT", TRUE))
        /\ ( /\ Running
             /\ CurrentToken.inst = "INST_HEAP_ALLOC"
             /\ stack_size > 0
             /\ heap_size = STACK_CAP ) =>
                /\ err' = "ERR_STACK_OVERFLOW"
                /\ heap' = heap
                /\ heap_size' = heap_size
        /\ ( /\ Running
             /\ CurrentToken.inst \notin {"INST_HEAP_ALLOC", "INST_STR_TYPE"} ) =>
                heap_size' = heap_size
        /\ heap_size \in 0..STACK_CAP /\ Len(heap) = heap_size ]_vars

\* C17 at its boundary: the table holds STACK_CAP slots and an allocation
\* has been refused.
C17_Witness ==
    /\ heap_size = STACK_CAP
    /\ last_inst >= 0
    /\ program[last_inst + 1].inst = "INST_HEAP_ALLOC"
    /\ err = "ERR_STACK_OVERFLOW"

\* C18: no instruction decreases the number of bindings, and the bindings
\* there were are bindings still.
C18_NeverShrinks ==
    [][ /\ stackframe_index' >= stackframe_index
        /\ \A i \in 0..(stackframe_index - 1) : i < stackframe_index' ]_vars

\* C19: a declaration pops one value and appends one binding that holds it,
\* the earlier bindings unchanged; a variable usage with at least one
\* binding declared pushes the value of the last binding and leaves the
\* bindings as they are.
C19_DeclareThenUse ==
    [][ /\ ( /\ Running
             /\ CurrentToken.inst = "INST_ADD_VAR_TO_STACKFRAME"
             /\ stack_size > 0 ) =>
                /\ err' = NoError
                /\ stack_size' = stack_size - 1
                /\ stack' = SubSeq(stack, 1, stack_size - 1)
                /\ stackframe_index' = stackframe_index + 1
                /\ Len(stackframe') = stackframe_index'
                /\ SubSeq(stackframe', 1, stackframe_index) = stackframe
                /\ stackframe'[stackframe_index'].val = stack[stack_size]
        /\ ( /\ Running
             /\ CurrentToken.inst = "INST_VAR_USAGE"
             /\ stackframe_index > 0
             /\ stack_size < STACK_CAP ) =>
                /\ err' = NoError
                /\ stack' = Append(stack, stackframe[stackframe_index].val)
                /\ stack_size' = stack_size + 1
                /\ stackframe' = stackframe
                /\ stackframe_index' = stackframe_index ]_vars

\* The instructions that read or write the current binding.
BindingOpcodes == {"INST_VAR_USAGE", "INST_ASSIGN", "INST_VAR_REASSIGN"}

\* C20: a variable usage, assign or variable reassign executed with no
\* binding declared fails with ERR_INVALID_STACK_ACCESS and the bindings are
\* left as they are.
C20_UndeclaredAccess ==
    [][ ( /\ Running
          /\ CurrentToken.inst \in BindingOpcodes
          /\ CurrentToken.inst # "INST_VAR_USAGE" => stack_size > 0
          /\ stackframe_index = 0 ) =>
            /\ err' = "ERR_INVALID_STACK_ACCESS"
            /\ stackframe' = stackframe
            /\ stackframe_index' = 0 ]_vars

\* Whether the value is a reference to a string slot whose buffer has not
\* been freed.
OwnsLiveString(val) ==
    /\ val.heap_ptr
    /\ ToU32(val.data) < heap_size
    /\ heap[ToU32(val.data) + 1].var_type = "VAR_TYPE_STR"
    /\ ~heap[ToU32(val.data) + 1].data.null

\* C21: when the current binding refers to a live string slot (as one
\* declared from a string literal does), an assign or variable reassign
\* ends without error, frees that slot, and installs the popped value.
C21_OverwriteFrees ==
    [][ ( /\ Running
          /\ CurrentToken.inst \in {"INST_ASSIGN", "INST_VAR_REASSIGN"}
          /\ stack_size > 0
          /\ stackframe_index \in 1..Len(stackframe)
          /\ OwnsLiveString(stackframe[stackframe_index].val) ) =>
            /\ err' = NoError
            /\ heap'[ToU32(stackframe[stackframe_index].val.data) + 1].data.null
            /\ stackframe'[stackframe_index].val.data = stack[stack_size].data ]_vars

\* C22: executing an opcode whose case has no behaviour ends the run with an
\* error or writes something to the output; it is never a step that changes
\* nothing but the instruction pointer.
C22_StubsRejected ==
    [][ (Running /\ CurrentToken.inst \in StubOpcodes) =>
            (err' # NoError \/ output' # output) ]_vars

\* C23: dispatching a token whose opcode has no case (INST_THEN, or a value
\* outside the enumeration) sets ERR_ILLEGAL_INSTRUCTION and changes nothing
\* else but the fetch's increment of inst_ptr; and once that error is set no
\* further step is taken.
C23_IllegalInstruction ==
    [][ /\ (Running /\ CurrentToken.inst \in UnhandledOpcodes) =>
                /\ err' = "ERR_ILLEGAL_INSTRUCTION"
                /\ inst_ptr' = inst_ptr + 1
                /\ UNCHANGED <<program, stack, stack_size, heap, heap_size,
                               stackframe, stackframe_index, output>>
        /\ err # "ERR_ILLEGAL_INSTRUCTION" ]_vars

\* A run stopped by an opcode outside the enumeration with a value on the
\* stack and instructions still ahead.
C23_Witness ==
    /\ err = "ERR_ILLEGAL_INSTRUCTION"
    /\ inst_ptr >= 1
    /\ ProgramAt(program, inst_ptr - 1).inst = "INST_OUT_OF_RANGE"
    /\ inst_ptr < program_size
    /\ stack_size = 1

\* sizeof the C type a scalar tag stands for.
Width(var_type) ==
    CASE var_type = "VAR_TYPE_CHAR"   -> 1
      [] var_type = "VAR_TYPE_DOUBLE" -> 8
      [] OTHER                        -> 4

ArithmeticOpcodes == {"INST_PLUS", "INST_MINUS", "INST_MUL", "INST_DIV", "INST_MOD"}

\* The two topmost values are scalars whose types differ in width.
MixedWidthOperands ==
    /\ stack_size >= 2
    /\ stack[stack_size].var_type \in ScalarTypes
    /\ stack[stack_size - 1].var_type \in ScalarTypes
    /\ Width(stack[stack_size].var_type) # Width(stack[stack_size - 1].var_type)

\* C24: plus, minus, mul, div and mod applied to two scalar operands whose
\* types differ in width fail with ERR_INVALID_DATA_TYPE and push nothing.
C24_MixedWidthRejected ==
    [][ ( /\ Running
          /\ CurrentToken.inst \in ArithmeticOpcodes
          /\ MixedWidthOperands ) =>
            err' = "ERR_INVALID_DATA_TYPE" ]_vars

\* Whether the relation of the comparison instruction holds between the
\* integers a and b.
Relation(inst, a, b) ==
    CASE inst = "INST_EQ"  -> a = b
      [] inst = "INST_NEQ" -> a # b
      [] inst = "INST_GT"  -> a > b
      [] inst = "INST_LT"  -> a < b
      [] inst = "INST_GEQ" -> a >= b
      [] inst = "INST_LEQ" -> a <= b

\* C25: a comparison instruction applied to the integers a (below) and b
\* (on top) replaces them by one value tagged VAR_TYPE_INT that is 1 when
\* the relation holds between a and b read as signed integers, else 0.
C25_SignedComparison ==
    [][ ( /\ Running
          /\ CurrentToken.inst \in CompareOpcodes
          /\ stack_size >= 2
          /\ stack[stack_size].var_type = "VAR_TYPE_INT"
          /\ stack[stack_size - 1].var_type = "VAR_TYPE_INT" ) =>
            /\ err' = NoError
            /\ stack_size' = stack_size - 1
            /\ SubSeq(stack', 1, stack_size - 2) = SubSeq(stack, 1, stack_size - 2)
            /\ stack'[stack_size'].var_type = "VAR_TYPE_INT"
            /\ stack'[stack_size'].data =
                    Bool(Relation(CurrentToken.inst,
                                  ToSigned(stack[stack_size - 1].data),
                                  ToSigned(stack[stack_size].data))) ]_vars

\* C26: the program that loads a string literal and executes println ends
\* without error and has written the chars of the literal and a line break.
C26_StringPrintln ==
    \A a \in DOMAIN StringLiterals :
        (program = StrLit(a) \o << Op("INST_PRINTLN") >> /\ ~Running) =>
            /\ err = NoError
            /\ output = StringLiterals[a] \o << "\n" >>

\* The state after stack_pop, and after stack_push of the value it returned.
AfterPop == stack_pop(State)

AfterPopPush == stack_push(AfterPop, AfterPop.ret)

\* C27: in every reachable state of a process that has not exited, with a
\* non-empty stack, stack_pop followed by stack_push of the value popped
\* raises no error and leaves the stack with the size and the contents it
\* had.
C27_PopPushRoundTrip ==
    (~Exited /\ stack_size > 0) =>
        /\ Ok(AfterPop)
        /\ AfterPop.stack_size = stack_size - 1
        /\ AfterPop.ret = stack[stack_size]
        /\ Ok(AfterPopPush)
        /\ AfterPopPush.stack_size = stack_size
        /\ AfterPopPush.stack = stack

\* A full stack, where the push succeeds only because the pop made room,
\* restored by the round trip.
C27_Witness ==
    /\ ~Exited
    /\ stack_size = STACK_CAP
    /\ Ok(AfterPop)
    /\ AfterPop.stack_size = STACK_CAP - 1
    /\ AfterPopPush.stack = stack
    /\ AfterPopPush.stack_size = STACK_CAP

\* The indices peeked at: every one up to past the top, the capacity and
\* the largest uint32_t.
PeekIndices == 0..(stack_size + 1) \cup {STACK_CAP, IntMod - 1}

\* stack_peak(k) in the current state: the cell k below the top and nothing
\* changed when k < stack_size, else ERR_INVALID_STACK_ACCESS.
PeekIsRight(k) ==
    LET r == stack_peak(State, k)
    IN  /\ r.stack = stack
        /\ r.stack_size = stack_size
        /\ IF k < stack_size
           THEN Ok(r) /\ r.ret = stack[stack_size - k]
           ELSE r.err = "ERR_INVALID_STACK_ACCESS"

\* C28: in every reachable state of a process that has not exited,
\* stack_peak(k) returns the cell at position stack_size - 1 - k and leaves
\* the stack as it is when k < stack_size, and fails with
\* ERR_INVALID_STACK_ACCESS when k >= stack_size; an INST_STACK_PREV step,
\* which pushes stack_peak(0), fails so on an empty stack.
C28_Peek ==
    /\ [](~Exited => \A k \in PeekIndices : PeekIsRight(k))
    /\ [][ (Running /\ CurrentToken.inst = "INST_STACK_PREV") =>
              IF stack_size = 0
              THEN err' = "ERR_INVALID_STACK_ACCESS" /\ stack' = stack
              ELSE stack_size < STACK_CAP =>
                      err' = NoError /\ stack' = Append(stack, stack[stack_size]) ]_vars

\* A stack of two different values: peek(1) is the lower one and peek(2)
\* is refused.
C28_Witness ==
    /\ ~Exited
    /\ stack_size = 2
    /\ stack[1] # stack[2]
    /\ stack_peak(State, 1).ret = stack[1]
    /\ stack_peak(State, 0).ret = stack[2]
    /\ stack_peak(State, 2).err = "ERR_INVALID_STACK_ACCESS"

\* The index of the else, elif or endif that closes the branch starting at
\* index i, taken lexically: an if inside opens a block that its endif
\* closes.
RECURSIVE Boundary(_, _, _)
Boundary(prog, i, depth) ==
    IF i >= Len(prog) THEN NotFound
    ELSE LET inst == ProgramAt(prog, i).inst
         IN  CASE inst = "INST_IF" -> Boundary(prog, i + 1, depth + 1)
               [] inst = "INST_ENDIF" /\ depth > 0 -> Boundary(prog, i + 1, depth - 1)
               [] inst \in {"INST_ELSE", "INST_ELIF", "INST_ENDIF"} /\ depth = 0 -> i
               [] OTHER -> Boundary(prog, i + 1, depth)

\* Whether the tokens from index i up to index b hold an if, an else and an
\* endif in that order.
HoldsIfElseEndif(prog, i, b) ==
    \E j, k, l \in i..(b - 1) :
        /\ j < k /\ k < l
        /\ prog[j + 1].inst = "INST_IF"
        /\ prog[k + 1].inst = "INST_ELSE"
        /\ prog[l + 1].inst = "INST_ENDIF"

\* C29: when an if pops 0 and the branch it skips holds a complete nested
\* if/else/endif block, the step leaves inst_ptr past the else, elif or
\* endif that closes the branch of the outer if, and not inside the branch.
C29_NestedIfSkipped ==
    [][ ( /\ Running
          /\ CurrentToken.inst = "INST_IF"
          /\ stack_size > 0
          /\ stack[stack_size].data = 0
          /\ Boundary(program, inst_ptr + 1, 0) # NotFound
          /\ HoldsIfElseEndif(program, inst_ptr + 1, Boundary(program, inst_ptr + 1, 0)) ) =>
            /\ err' = NoError
            /\ inst_ptr' > Boundary(program, inst_ptr + 1, 0) ]_vars

\* C30: a run of the chain push 0; if; A; push 1; elif; B; else; C; endif
\* in which the if has been dispatched, once over, has ended without error,
\* has executed B, and has executed neither A nor C.
C30_ElifChain ==
    ( /\ program \in {ElifChain(0, 1), Padded(ElifChain(0, 1))}
      /\ IndicesOf(program, Op("INST_IF")) \subseteq executed
      /\ Halted ) =>
        /\ err = NoError
        /\ IndicesOf(program, BodyB) \subseteq executed
        /\ IndicesOf(program, BodyA) \cap executed = {}
        /\ IndicesOf(program, BodyC) \cap executed = {}

\* The two topmost values are tagged VAR_TYPE_INT.
IntOperands ==
    /\ stack_size >= 2
    /\ stack[stack_size].var_type = "VAR_TYPE_INT"
    /\ stack[stack_size - 1].var_type = "VAR_TYPE_INT"

\* C31: minus applied to the integers a (pushed first, below) and b (pushed
\* second, on top) replaces the two by one value tagged VAR_TYPE_INT whose
\* payload is a - b in two's complement; div and lt take their operands in
\* the same order; and every binary instruction that succeeds leaves the
\* stack one value shorter, the values below its operands unchanged.
C31_OperandOrder ==
    [][ /\ ( /\ Running
             /\ CurrentToken.inst = "INST_MINUS"
             /\ IntOperands ) =>
                /\ err' = NoError
                /\ stack_size' = stack_size - 1
                /\ stack'[stack_size'].var_type = "VAR_TYPE_INT"
                /\ stack'[stack_size'].data =
                        ToSize(ToSigned(stack[stack_size - 1].data)
                               - ToSigned(stack[stack_size].data))
        /\ ( /\ Running
             /\ CurrentToken.inst \in {"INST_DIV", "INST_LT"}
             /\ IntOperands
             /\ ToSigned(stack[stack_size - 1].data) >= 0
             /\ ToSigned(stack[stack_size].data) > 0 ) =>
                /\ err' = NoError
                /\ stack'[stack_size'].data =
                        IF CurrentToken.inst = "INST_DIV"
                        THEN stack[stack_size - 1].data \div stack[stack_size].data
                        ELSE Bool(stack[stack_size - 1].data < stack[stack_size].data)
        /\ ( /\ Running
             /\ CurrentToken.inst \in BinaryOpcodes
             /\ err' = NoError ) =>
                /\ stack_size >= 2
                /\ stack_size' = stack_size - 1
                /\ SubSeq(stack', 1, stack_size - 2) = SubSeq(stack, 1, stack_size - 2) ]_vars

\* push -7; push 2; minus has left -9 on a stack of one value.
C31_Witness ==
    /\ program = Padded(<< OpInt("INST_STACK_PUSH", ToSize(-7)),
                           OpInt("INST_STACK_PUSH", 2), Op("INST_MINUS") >>)
    /\ last_inst = 4
    /\ err = NoError
    /\ stack_size = 1
    /\ stack[1].data = ToSize(-9)
    /\ stack[1].var_type = "VAR_TYPE_INT"

\* C32: an integer load executed with room on the stack raises no error and
\* pushes one value tagged VAR_TYPE_INT whose payload is the operand of the
\* token of the load itself.
C32_IntLoadOwnOperand ==
    [][ ( /\ Running
          /\ CurrentToken.inst = "INST_INT_TYPE"
          /\ stack_size < STACK_CAP ) =>
            /\ err' = NoError
            /\ stack_size' = stack_size + 1
            /\ SubSeq(stack', 1, stack_size) = stack
            /\ stack'[stack_size'].var_type = "VAR_TYPE_INT"
            /\ stack'[stack_size'].data = CurrentToken.val.data ]_vars

\* C33: the number of bindings never exceeds STACKFRAME_CAP, and a
\* declaration executed with STACKFRAME_CAP bindings fails with an error of
\* the interpreter and leaves the bindings and their count as they are.
C33_EnvironmentCapacity ==
    /\ [](stackframe_index <= STACKFRAME_CAP /\ Len(stackframe) <= STACKFRAME_CAP)
    /\ [][ ( /\ Running
             /\ CurrentToken.inst = "INST_ADD_VAR_TO_STACKFRAME"
             /\ stack_size > 0
             /\ stackframe_index = STACKFRAME_CAP ) =>
                /\ err' \in PanicKinds
                /\ stackframe' = stackframe
                /\ stackframe_index' = stackframe_index ]_vars

\* An if is about to pop 0 and no else, elif or endif closes its branch
\* anywhere later in the program.
AtOpenFalseIf ==
    /\ Running
    /\ CurrentToken.inst = "INST_IF"
    /\ stack_size > 0
    /\ stack[stack_size].data = 0
    /\ Boundary(program, inst_ptr + 1, 0) = NotFound

\* C34: the handler of an if that pops 0 and has no else, elif or endif at
\* its own depth later in the program raises no error and leaves inst_ptr
\* where the fetch left it, at the index after the if.
C34_OpenIf ==
    AtOpenFalseIf =>
        /\ Ok(INST_IF(Fetched))
        /\ INST_IF(Fetched).inst_ptr = inst_ptr + 1

\* C35: the program push old; declare; push v; reassign; usage, once over,
\* has ended without error with one value on the stack whose payload and
\* tag are those of v, for every scalar tag of v and every tag of old.
C35_ReassignThenUse ==
    \A old \in OldValues, v \in NewScalars :
        (program = ReassignProgram(old, v) /\ Halted) =>
            /\ err = NoError
            /\ stack_size = 1
            /\ stack[1].data = v.data
            /\ stack[1].var_type = v.var_type

====
